---- MODULE Spec2Model ----
(***************************************************************************)
(* Truck / cargo matching: the time-window optimiser of                    *)
(* app/utils/optimizer.py (with app/utils/time_cost_calculator.py) and the *)
(* distance-only optimiser of app/streamlit_app.py.                        *)
(*                                                                         *)
(* Both are pure functions of two data frames.  A behaviour of the model   *)
(* is: pick the data frames (Init), then make one call (one action), whose *)
(* outcome -- the returned value or the exception that escapes -- is       *)
(* stored in `outcome`.                                                    *)
(*                                                                         *)
(* Numbers.  Locations lie on a line at whole hours of travel, so that     *)
(* geodesic distances are multiples of standard_speed_kmh and every time   *)
(* is a whole hour; timestamps are hours since an epoch.                   *)
(***************************************************************************)
EXTENDS Integers, Sequences, FiniteSets, TLC

VARIABLES trucks_df, cargo_df, pc, op, outcome

vars == <<trucks_df, cargo_df, pc, op, outcome>>

(* ---------------------------- bounds ---------------------------------- *)
MaxTrucks == 2
MaxCargo == 2
MaxLoc == 1

(* ------------------------- Python values ------------------------------ *)
\* A value of a timestamp column as pandas reads it from CSV: a string
\* (in the format '%Y-%m-%d %H:%M:%S' or not) or NaN for an empty field.
WellFormed(h) == [type |-> "str", wf |-> TRUE, hour |-> h]
Malformed == [type |-> "str", wf |-> FALSE, hour |-> 0]
NaN == [type |-> "float", wf |-> FALSE, hour |-> 0]

\* Result of evaluating an expression: a value, or an exception.
Ok(v) == [ok |-> TRUE, val |-> v, err |-> "none"]
Raise(e) == [ok |-> FALSE, val |-> 0, err |-> e]

\* A matrix cell: a finite number, or np.inf.
Finite(v) == [inf |-> FALSE, v |-> v]
Inf == [inf |-> TRUE, v |-> 0]

Min(a, b) == IF a <= b THEN a ELSE b
Max(a, b) == IF a >= b THEN a ELSE b
Abs(a) == IF a >= 0 THEN a ELSE 0 - a

(* ------------------- utils/time_cost_calculator.py -------------------- *)
standard_speed_kmh == 73

\* datetime.strptime(s, '%Y-%m-%d %H:%M:%S')
strptime(s) ==
  IF s.type # "str" THEN Raise("TypeError")
  ELSE IF ~s.wf THEN Raise("ValueError")
  ELSE Ok(s.hour)

\* geopy's geodesic(a, b).kilometers on the line of locations
geodesic(a, b) == Abs(a - b)

calculate_travel_time(distance_km) == distance_km \div standard_speed_kmh

calculate_pickup_time(dropoff_time, distance_km) ==
  LET travel_time == calculate_travel_time(distance_km)
  IN  IF dropoff_time.type = "str"
      THEN LET parsed == strptime(dropoff_time)
           IN  IF parsed.ok THEN Ok(parsed.val - travel_time) ELSE parsed
      ELSE Raise("TypeError")   \* float - timedelta

calculate_waiting_time(pickup_time, cargo_available_from) ==
  IF cargo_available_from.type = "str"
  THEN LET parsed == strptime(cargo_available_from)
       IN  IF ~parsed.ok THEN parsed
           ELSE IF pickup_time < parsed.val
                THEN Ok(parsed.val - pickup_time)
                ELSE Ok(0)
  ELSE Raise("TypeError")       \* datetime < float

calculate_total_cost(distance_km, waiting_hours, price_per_km, waiting_price_per_hour) ==
  LET distance_cost == distance_km * price_per_km
      waiting_cost == waiting_hours * waiting_price_per_hour
  IN  distance_cost + waiting_cost

(* --------------------- scipy.optimize ---------------------------------- *)
\* A matrix is [nr, nc, cell], cell a function on (0..nr-1) \X (0..nc-1).
Matrix(nr, nc, cell) == [nr |-> nr, nc |-> nc, cell |-> cell]

IsInjective(f) == \A a, b \in DOMAIN f : f[a] = f[b] => a = b

\* The complete assignments of a rectangular matrix: every row is matched
\* when nr <= nc, every column otherwise.
CompleteAssignments(nr, nc) ==
  IF nr <= nc
  THEN { { <<i, f[i]>> : i \in 0..(nr - 1) } :
           f \in { g \in [0..(nr - 1) -> 0..(nc - 1)] : IsInjective(g) } }
  ELSE { { <<f[j], j>> : j \in 0..(nc - 1) } :
           f \in { g \in [0..(nc - 1) -> 0..(nr - 1)] : IsInjective(g) } }

RECURSIVE SumCells(_, _)
SumCells(S, cell) ==
  IF S = {} THEN 0
  ELSE LET p == CHOOSE q \in S : TRUE
       IN  cell[p].v + SumCells(S \ {p}, cell)

\* (row_ind, col_ind) zipped: the pairs of S in increasing row order.
ZipSorted(S) ==
  CHOOSE s \in [1..Cardinality(S) -> S] :
    \A a, b \in 1..Cardinality(S) : a < b => s[a][1] < s[b][1]

\* linear_sum_assignment(cost_matrix): the result is the set of the
\* minimum-cost complete assignments over finite cells (the library returns
\* one of them), or ValueError("cost matrix is infeasible") when no complete
\* assignment avoids the infinite cells.
linear_sum_assignment(M) ==
  LET feasible == { S \in CompleteAssignments(M.nr, M.nc) :
                      \A p \in S : ~M.cell[p].inf }
      optimal == { S \in feasible :
                     \A T \in feasible : SumCells(S, M.cell) <= SumCells(T, M.cell) }
  IN  IF M.nr = 0 \/ M.nc = 0 THEN Ok({<<>>})
      ELSE IF feasible = {} THEN Raise("ValueError")
      ELSE Ok({ ZipSorted(S) : S \in optimal })

(* ------------------------ utils/optimizer.py --------------------------- *)
\* The names bound in the module's namespace: its imports and its two
\* functions.
optimizer_globals ==
  {"np", "linear_sum_assignment", "geodesic", "TimeCostCalculator",
   "calculate_cost_matrix", "optimize_assignments"}

\* One iteration of the loop body for (truck, cargo): the exception that
\* escapes it, or the cell and the time_info entry it stores.
CellOutcome(truck, cargo) ==
  LET distance == geodesic(truck.loc, cargo.loc)
      pickup_time == calculate_pickup_time(truck.Timestamp_dropoff, distance)
      waiting_hours == calculate_waiting_time(pickup_time.val, cargo.Available_From)
      total_cost == calculate_total_cost(distance, waiting_hours.val,
                                         truck.price_per_km, truck.waiting_price_per_h)
      cargo_available_to == strptime(cargo.Available_To)
  IN  IF ~pickup_time.ok THEN pickup_time
      ELSE IF ~waiting_hours.ok THEN waiting_hours
      ELSE IF "datetime" \notin optimizer_globals THEN Raise("NameError")
      ELSE IF ~cargo_available_to.ok THEN cargo_available_to
      ELSE IF pickup_time.val <= cargo_available_to.val
           THEN Ok([valid |-> TRUE,
                    pickup_time |-> pickup_time.val,
                    waiting_hours |-> waiting_hours.val,
                    distance |-> distance,
                    distance_cost |-> distance * truck.price_per_km,
                    waiting_cost |-> waiting_hours.val * truck.waiting_price_per_h,
                    total_cost |-> total_cost])
           ELSE Ok([valid |-> FALSE])

Len0(df) == Cardinality(DOMAIN df)

calculate_cost_matrix(trucks, cargo) ==
  LET num_trucks == Len0(trucks)
      num_cargo == Len0(cargo)
      idx == (0..(num_trucks - 1)) \X (0..(num_cargo - 1))
      body == [p \in idx |-> CellOutcome(trucks[p[1]], cargo[p[2]])]
      raising == { p \in idx : ~body[p].ok }
      first == CHOOSE p \in raising :
                 \A q \in raising : p[1] * num_cargo + p[2] <= q[1] * num_cargo + q[2]
      valid == { p \in idx : body[p].val.valid }
  IN  IF raising # {} THEN Raise(body[first].err)
      ELSE Ok([cost_matrix |->
                 Matrix(num_trucks, num_cargo,
                        [p \in idx |-> IF p \in valid
                                       THEN Finite(body[p].val.total_cost)
                                       ELSE Inf]),
               time_info |->
                 [p \in valid |->
                    [pickup_time |-> body[p].val.pickup_time,
                     waiting_hours |-> body[p].val.waiting_hours,
                     distance |-> body[p].val.distance,
                     distance_cost |-> body[p].val.distance_cost,
                     waiting_cost |-> body[p].val.waiting_cost,
                     total_cost |-> body[p].val.total_cost]]])

\* optimize_assignments with a guard that rejects a matrix without a finite
\* cell (np.isinf(cost_matrix).all(), which is True of an empty matrix).
optimize_assignments_rejects_all_inf(trucks, cargo) ==
  LET built == calculate_cost_matrix(trucks, cargo)
      cost_matrix == built.val.cost_matrix
      solved == linear_sum_assignment(cost_matrix)
  IN  IF ~built.ok THEN built
      ELSE IF \A p \in DOMAIN cost_matrix.cell : cost_matrix.cell[p].inf
           THEN Raise("ValueError")
      ELSE IF ~solved.ok THEN solved
      ELSE Ok({ [valid_assignments |->
                   SelectSeq(a, LAMBDA p : ~cost_matrix.cell[p].inf),
                 time_info |-> built.val.time_info,
                 cost_matrix |-> cost_matrix] : a \in solved.val })

\* optimize_assignments of utils/optimizer.py: the set of values it can
\* return (one per optimal solution of the solver), or the exception.
optimize_assignments(trucks, cargo) ==
  LET built == calculate_cost_matrix(trucks, cargo)
      cost_matrix == built.val.cost_matrix
      solved == linear_sum_assignment(cost_matrix)
  IN  IF ~built.ok THEN built
      ELSE IF ~solved.ok THEN solved
      ELSE Ok({ [valid_assignments |->
                   SelectSeq(a, LAMBDA p : ~cost_matrix.cell[p].inf),
                 time_info |-> built.val.time_info,
                 cost_matrix |-> cost_matrix] : a \in solved.val })

(* ------------------------- streamlit_app.py ---------------------------- *)
PaddingCost == 1000000

calculate_distances(trucks, cargo) ==
  [p \in (0..(Len0(trucks) - 1)) \X (0..(Len0(cargo) - 1)) |->
     geodesic(trucks[p[1]].loc, cargo[p[2]].loc)]

\* streamlit's optimize_assignments without the filter of dummy pairs.
streamlit_optimize_assignments_unfiltered(trucks, cargo) ==
  LET distances == calculate_distances(trucks, cargo)
      num_trucks == Len0(trucks)
      num_cargo == Len0(cargo)
      max_dim == Max(num_trucks, num_cargo)
      cost_matrix ==
        Matrix(max_dim, max_dim,
               [p \in (0..(max_dim - 1)) \X (0..(max_dim - 1)) |->
                  IF p[1] < num_trucks /\ p[2] < num_cargo
                  THEN Finite(distances[p])
                  ELSE Finite(PaddingCost)])
      solved == linear_sum_assignment(cost_matrix)
  IN  IF ~solved.ok THEN solved
      ELSE Ok({ [valid_assignments |-> a,
                 distances |-> distances] : a \in solved.val })

\* optimize_assignments of streamlit_app.py
streamlit_optimize_assignments(trucks, cargo) ==
  LET distances == calculate_distances(trucks, cargo)
      num_trucks == Len0(trucks)
      num_cargo == Len0(cargo)
      max_dim == Max(num_trucks, num_cargo)
      cost_matrix ==
        Matrix(max_dim, max_dim,
               [p \in (0..(max_dim - 1)) \X (0..(max_dim - 1)) |->
                  IF p[1] < num_trucks /\ p[2] < num_cargo
                  THEN Finite(distances[p])
                  ELSE Finite(PaddingCost)])
      solved == linear_sum_assignment(cost_matrix)
  IN  IF ~solved.ok THEN solved
      ELSE Ok({ [valid_assignments |->
                   SelectSeq(a, LAMBDA p : p[1] < num_trucks /\ p[2] < num_cargo),
                 distances |-> distances] : a \in solved.val })

(* --------------------------- the inputs -------------------------------- *)
\* Locations on the line, at whole hours of travel apart.
Locations == { standard_speed_kmh * k : k \in 0..MaxLoc }

\* The hour at which every truck of the model is released: late enough for
\* the farthest cargo to be reached at hour 1.
ReleaseHour == MaxLoc + 1

\* Truck rows: a sound row at each location, and at location 0 one row per
\* defect (an unparseable dropoff timestamp, a negative price per km, a
\* negative waiting price).
TruckRows ==
  [loc : Locations, Timestamp_dropoff : {WellFormed(ReleaseHour)},
   price_per_km : {1}, waiting_price_per_h : {1}]
  \cup
  { [loc |-> 0, Timestamp_dropoff |-> Malformed,
     price_per_km |-> 1, waiting_price_per_h |-> 1],
    [loc |-> 0, Timestamp_dropoff |-> WellFormed(ReleaseHour),
     price_per_km |-> -1, waiting_price_per_h |-> 1],
    [loc |-> 0, Timestamp_dropoff |-> WellFormed(ReleaseHour),
     price_per_km |-> 1, waiting_price_per_h |-> -1] }

\* Cargo rows: at each location a window open from hour 1 to the release
\* hour, and at location 0 a window closed before any truck arrives, an
\* inverted window, an unparseable Available_From, an empty Available_To.
CargoRows ==
  [loc : Locations, Available_From : {WellFormed(1)},
   Available_To : {WellFormed(ReleaseHour)}]
  \cup
  { [loc |-> 0, Available_From |-> WellFormed(0), Available_To |-> WellFormed(0)],
    [loc |-> 0, Available_From |-> WellFormed(ReleaseHour),
     Available_To |-> WellFormed(ReleaseHour - 1)],
    [loc |-> 0, Available_From |-> Malformed,
     Available_To |-> WellFormed(ReleaseHour)],
    [loc |-> 0, Available_From |-> WellFormed(1), Available_To |-> NaN] }

\* A data frame with the default RangeIndex 0..n-1.
DataFrames(rows, max) ==
  UNION { [0..(n - 1) -> rows] : n \in 0..max }

NoOutcome == [status |-> "none", err |-> "none", value |-> <<>>]
Returned(v) == [status |-> "returned", err |-> "none", value |-> v]
Raised(e) == [status |-> "raised", err |-> e, value |-> <<>>]

Init ==
  /\ trucks_df \in DataFrames(TruckRows, MaxTrucks)
  /\ cargo_df \in DataFrames(CargoRows, MaxCargo)
  /\ pc = "ready"
  /\ op = "none"
  /\ outcome = NoOutcome

(* --------------------------- the calls --------------------------------- *)
\* calculate_cost_matrix(trucks_df, cargo_df) of utils/optimizer.py
CallCalculateCostMatrix ==
  /\ pc = "ready"
  /\ LET r == calculate_cost_matrix(trucks_df, cargo_df)
     IN  outcome' = IF r.ok THEN Returned(r.val) ELSE Raised(r.err)
  /\ op' = "calculate_cost_matrix"
  /\ pc' = "done"
  /\ UNCHANGED <<trucks_df, cargo_df>>

\* optimize_assignments(trucks_df, cargo_df) of utils/optimizer.py
CallOptimizeAssignments ==
  /\ pc = "ready"
  /\ LET r == optimize_assignments(trucks_df, cargo_df)
     IN  IF r.ok
         THEN \E v \in r.val : outcome' = Returned(v)
         ELSE outcome' = Raised(r.err)
  /\ op' = "optimize_assignments"
  /\ pc' = "done"
  /\ UNCHANGED <<trucks_df, cargo_df>>

\* optimize_assignments(trucks_df, cargo_df) of streamlit_app.py
CallStreamlitOptimizeAssignments ==
  /\ pc = "ready"
  /\ LET r == streamlit_optimize_assignments(trucks_df, cargo_df)
     IN  IF r.ok
         THEN \E v \in r.val : outcome' = Returned(v)
         ELSE outcome' = Raised(r.err)
  /\ op' = "streamlit_optimize_assignments"
  /\ pc' = "done"
  /\ UNCHANGED <<trucks_df, cargo_df>>

Next ==
  \/ CallCalculateCostMatrix
  \/ CallOptimizeAssignments
  \/ CallStreamlitOptimizeAssignments

Spec == Init /\ [][Next]_vars

TypeOK ==
  /\ pc \in {"ready", "done"}
  /\ op \in {"none", "calculate_cost_matrix", "optimize_assignments",
             "streamlit_optimize_assignments"}
  /\ outcome.status \in {"none", "returned", "raised"}
  /\ (pc = "ready") <=> (outcome.status = "none")

(* ===================== vocabulary of the properties ==================== *)
NumTrucks == Len0(trucks_df)
NumCargo == Len0(cargo_df)
TruckIdx == 0..(NumTrucks - 1)
CargoIdx == 0..(NumCargo - 1)

Done(o) == pc = "done" /\ op = o
ReturnedFrom(o) == Done(o) /\ outcome.status = "returned"
RaisedFrom(o) == Done(o) /\ outcome.status = "raised"

\* The pairs returned by either optimiser.
Pairs == outcome.value.valid_assignments
PairSet == { Pairs[k] : k \in 1..Len(Pairs) }

Parseable(s) == s.type = "str" /\ s.wf
TruckParseable(i) == Parseable(trucks_df[i].Timestamp_dropoff)
CargoParseable(j) ==
  Parseable(cargo_df[j].Available_From) /\ Parseable(cargo_df[j].Available_To)

AllParseable ==
  (\A i \in TruckIdx : TruckParseable(i)) /\ (\A j \in CargoIdx : CargoParseable(j))

Distance(i, j) == geodesic(trucks_df[i].loc, cargo_df[j].loc)

\* Truck i's dropoff timestamp minus distance(i, j) / 73 hours.
ProjectedPickup(i, j) ==
  trucks_df[i].Timestamp_dropoff.hour - (Distance(i, j) \div standard_speed_kmh)

FeasiblePair(i, j) ==
  /\ TruckParseable(i)
  /\ CargoParseable(j)
  /\ ProjectedPickup(i, j) <= cargo_df[j].Available_To.hour

WaitingHours(i, j) ==
  Max(0, cargo_df[j].Available_From.hour - ProjectedPickup(i, j))

TotalCost(i, j) ==
  Distance(i, j) * trucks_df[i].price_per_km
    + WaitingHours(i, j) * trucks_df[i].waiting_price_per_h

(* ---- the missing import ---------------------------------------------- *)
\* utils/optimizer.py uses the name datetime (line 44) and never binds it:
\* every call of calculate_cost_matrix or optimize_assignments that enters
\* the loop body raises, whatever the rows hold.
EveryNonEmptyCallRaises ==
  (pc = "done" /\ op \in {"calculate_cost_matrix", "optimize_assignments"}
     /\ NumTrucks > 0 /\ NumCargo > 0)
    => outcome.status = "raised"

\* ... and it is NameError whenever the first truck's timestamp and the
\* first cargo's Available_From parse.
NameErrorWhenFirstPairParses ==
  (pc = "done" /\ op \in {"calculate_cost_matrix", "optimize_assignments"}
     /\ NumTrucks > 0 /\ NumCargo > 0
     /\ TruckParseable(0) /\ Parseable(cargo_df[0].Available_From))
    => (outcome.status = "raised" /\ outcome.err = "NameError")

(* ============================== C2 ===================================== *)
\* C2: the list of pairs returned by either optimize_assignments is a
\* partial one-to-one matching: no truck index and no cargo index occurs in
\* two pairs, every index lies in the real (unpadded) ranges, and there are
\* at most min(num_trucks, num_cargo) pairs.
C2_PartialMatching ==
  (ReturnedFrom("optimize_assignments") \/ ReturnedFrom("streamlit_optimize_assignments"))
    => /\ \A a, b \in 1..Len(Pairs) :
            a # b => (Pairs[a][1] # Pairs[b][1] /\ Pairs[a][2] # Pairs[b][2])
       /\ \A a \in 1..Len(Pairs) :
            Pairs[a][1] \in TruckIdx /\ Pairs[a][2] \in CargoIdx
       /\ Len(Pairs) <= Min(NumTrucks, NumCargo)

\* A padded run: unequal counts, a real pair returned, a dummy one dropped.
C2_Witness ==
  /\ ReturnedFrom("streamlit_optimize_assignments")
  /\ NumTrucks > NumCargo
  /\ Len(Pairs) = NumCargo
  /\ Len(Pairs) >= 1

(* ============================== C4 ===================================== *)
\* Cargo j's window closes before any truck can reach it.
ColumnInfeasible(j) ==
  /\ NumTrucks > 0
  /\ Parseable(cargo_df[j].Available_To)
  /\ Parseable(cargo_df[j].Available_From)
  /\ \A i \in TruckIdx :
       TruckParseable(i) /\ ProjectedPickup(i, j) > cargo_df[j].Available_To.hour

\* C4: when a cargo's whole column is infeasible, optimize_assignments
\* still completes, and the cargo is in no returned pair.
C4_InfeasibleColumnTolerated ==
  (Done("optimize_assignments") /\ \E j \in CargoIdx : ColumnInfeasible(j))
    => /\ outcome.status = "returned"
       /\ \A j \in CargoIdx :
            ColumnInfeasible(j) => \A p \in PairSet : p[2] # j

(* ============================== C5 ===================================== *)
\* C5: n > 1 trucks, one cargo, some feasible pair: exactly one pair is
\* returned, the feasible pair of minimum cost (total cost in
\* utils/optimizer.py, distance in streamlit_app.py).
C5_SingleCargoBestTruck ==
  /\ (Done("optimize_assignments") /\ NumTrucks > 1 /\ NumCargo = 1
        /\ AllParseable /\ \E i \in TruckIdx : FeasiblePair(i, 0))
       => /\ outcome.status = "returned"
          /\ Len(Pairs) = 1
          /\ Pairs[1][2] = 0
          /\ FeasiblePair(Pairs[1][1], 0)
          /\ \A i \in TruckIdx :
               FeasiblePair(i, 0) => TotalCost(Pairs[1][1], 0) <= TotalCost(i, 0)
  /\ (Done("streamlit_optimize_assignments") /\ NumTrucks > 1 /\ NumCargo = 1)
       => /\ outcome.status = "returned"
          /\ Len(Pairs) = 1
          /\ Pairs[1][2] = 0
          /\ \A i \in TruckIdx : Distance(Pairs[1][1], 0) <= Distance(i, 0)

\* The half of C5 that is about streamlit_app.py holds of the code.
C5_StreamlitHalf ==
  (Done("streamlit_optimize_assignments") /\ NumTrucks > 1 /\ NumCargo = 1)
    => /\ outcome.status = "returned"
       /\ Len(Pairs) = 1
       /\ Pairs[1][2] = 0
       /\ \A i \in TruckIdx : Distance(Pairs[1][1], 0) <= Distance(i, 0)

(* ============================== C6 ===================================== *)
TruckDefect(i) == ~TruckParseable(i)
CargoDefect(j) == ~CargoParseable(j)

\* The cell the builder is to store for a pair of parseable records.
ExpectedCell(i, j) ==
  IF FeasiblePair(i, j) THEN Finite(TotalCost(i, j)) ELSE Inf

\* C6: an unparseable or missing timestamp does not abort
\* calculate_cost_matrix: the matrix is complete, the pairs of the defective
\* record are sentinel cells without a time_info entry, every other cell is
\* computed as usual.
C6_MalformedTimestampIsolated ==
  (Done("calculate_cost_matrix")
     /\ ((\E i \in TruckIdx : TruckDefect(i)) \/ (\E j \in CargoIdx : CargoDefect(j))))
    => /\ outcome.status = "returned"
       /\ DOMAIN outcome.value.cost_matrix.cell = TruckIdx \X CargoIdx
       /\ \A i \in TruckIdx, j \in CargoIdx :
            IF TruckDefect(i) \/ CargoDefect(j)
            THEN /\ outcome.value.cost_matrix.cell[<<i, j>>].inf
                 /\ <<i, j>> \notin DOMAIN outcome.value.time_info
            ELSE outcome.value.cost_matrix.cell[<<i, j>>] = ExpectedCell(i, j)

(* ============================== C7 ===================================== *)
Inverted(j) ==
  /\ CargoParseable(j)
  /\ cargo_df[j].Available_From.hour > cargo_df[j].Available_To.hour

\* C7: a cargo with Available_From > Available_To is tolerated: each of its
\* pairs gets a sentinel cell and no time_info entry, and it is in no
\* returned pair.
C7_InvertedWindowInfeasible ==
  /\ (Done("calculate_cost_matrix") /\ AllParseable /\ NumTrucks > 0
        /\ \E j \in CargoIdx : Inverted(j))
       => /\ outcome.status = "returned"
          /\ \A i \in TruckIdx, j \in CargoIdx :
               Inverted(j) => /\ outcome.value.cost_matrix.cell[<<i, j>>].inf
                              /\ <<i, j>> \notin DOMAIN outcome.value.time_info
  /\ (Done("optimize_assignments") /\ AllParseable /\ NumTrucks > 0
        /\ \E j \in CargoIdx : Inverted(j))
       => (outcome.status = "returned" => \A p \in PairSet : ~Inverted(p[2]))

(* ============================== C8 ===================================== *)
NegativePrice(i) ==
  trucks_df[i].price_per_km < 0 \/ trucks_df[i].waiting_price_per_h < 0

\* C8: a negative price on a truck makes each of its pairs a sentinel cell
\* without a time_info entry; no such pair is returned and no negative total
\* cost is stored.
C8_NegativePriceInfeasible ==
  /\ (Done("calculate_cost_matrix") /\ AllParseable /\ NumCargo > 0
        /\ \E i \in TruckIdx : NegativePrice(i))
       => /\ outcome.status = "returned"
          /\ \A i \in TruckIdx, j \in CargoIdx :
               /\ NegativePrice(i) =>
                    /\ outcome.value.cost_matrix.cell[<<i, j>>].inf
                    /\ <<i, j>> \notin DOMAIN outcome.value.time_info
               /\ ~outcome.value.cost_matrix.cell[<<i, j>>].inf =>
                    outcome.value.cost_matrix.cell[<<i, j>>].v >= 0
  /\ (Done("optimize_assignments") /\ AllParseable /\ NumCargo > 0
        /\ \E i \in TruckIdx : NegativePrice(i))
       => (outcome.status = "returned" => \A p \in PairSet : ~NegativePrice(p[1]))

(* ============================== C9 ===================================== *)
\* C9: with zero trucks or zero cargo, calculate_cost_matrix returns an
\* empty matrix and an empty time_info, and both optimize_assignments
\* return an empty list of pairs; nothing is raised.
C9_EmptyInputReturnsEmpty ==
  (pc = "done" /\ (NumTrucks = 0 \/ NumCargo = 0))
    => /\ outcome.status = "returned"
       /\ op = "calculate_cost_matrix" =>
            /\ DOMAIN outcome.value.cost_matrix.cell = {}
            /\ outcome.value.cost_matrix.nr = NumTrucks
            /\ outcome.value.cost_matrix.nc = NumCargo
            /\ DOMAIN outcome.value.time_info = {}
       /\ op = "optimize_assignments" =>
            /\ Pairs = <<>>
            /\ DOMAIN outcome.value.time_info = {}
       /\ op = "streamlit_optimize_assignments" => Pairs = <<>>

\* The time-window optimiser returned for some cargo and no truck.
C9_Witness ==
  /\ ReturnedFrom("optimize_assignments")
  /\ NumTrucks = 0
  /\ NumCargo > 0
  /\ Pairs = <<>>

(* ==================== C1, C3, C10: what can be said ==================== *)
\* The time-window optimiser returns only for an empty data frame, and
\* then returns no pair: a statement about the pairs it returns, or about
\* the truck it assigns in two runs, has no instance.
UtilsReturnsOnlyEmpty ==
  ReturnedFrom("optimize_assignments")
    => /\ (NumTrucks = 0 \/ NumCargo = 0)
       /\ Pairs = <<>>

(* ========================= C11: what can be said ======================= *)
\* calculate_cost_matrix returns only when one of the data frames is empty,
\* and then the matrix has no cell and time_info no entry: a statement
\* about the cells of the returned matrix and their entries has no
\* instance.
CostMatrixReturnsOnlyWithoutCells ==
  ReturnedFrom("calculate_cost_matrix")
    => /\ (NumTrucks = 0 \/ NumCargo = 0)
       /\ DOMAIN outcome.value.cost_matrix.cell = {}
       /\ DOMAIN outcome.value.time_info = {}

====
